---- MODULE Spec2Model ----
(***************************************************************************)
(* Model of the sentiment service (sentiment/src/sentiment_service.rs):    *)
(* the facade SentimentService, the engine thread started by               *)
(* start_sentiment_engine and one broadcaster thread per stock started by  *)
(* start_udp_broadcaster, sharing sentiments (RwLock<HashMap<u64,f64>>)    *)
(* and market_mood (RwLock<f64>).                                          *)
(*                                                                         *)
(* f64 values are fixed-point integers, Scale units per 1.0.  A datagram's *)
(* text "d.dddddd" is the integer number of millionths it denotes.         *)
(*                                                                         *)
(* std::sync::RwLock leaves open whether a waiting writer holds new        *)
(* readers back: writersFirst is the policy of a run.  moodAdvances,       *)
(* writtenAt and trace are history variables: they record what the threads *)
(* have done and no action's guard or result depends on them.              *)
(***************************************************************************)
EXTENDS Integers, Naturals, Sequences, FiniteSets, TLC

VARIABLES
    stocks,        \* SentimentService.stocks: Vec<Stock>, as [id, sentiment_port]
    config,        \* SentimentService.config
    sentiments,    \* the HashMap<u64, f64> behind the RwLock
    market_mood,   \* the f64 behind the RwLock
    moodLock,      \* writer of market_mood's RwLock: 0 free, k engine k
    sentWriter,    \* writer of sentiments' RwLock: 0 free, k engine k
    sentReaders,   \* holders of read access to sentiments
    engine,        \* engine threads: [pc, idx]
    bcast,         \* broadcaster threads: [pc, sentiment]
    facade,        \* the thread calling the facade: [pc, idx, arg, ret, starts]
    ticks,         \* engine loop iterations completed
    startBudget,   \* how many times the caller calls start()
    tickBudget,    \* how many iterations of the engine loop are followed
    writersFirst,  \* the RwLock's policy: a waiting writer holds new readers back
    moodAdvances,  \* history: how many times *mood += .. has run
    writtenAt,     \* history: per stored id, the tick that last wrote it
    trace          \* history kept on request: the draws and the datagrams

vars == <<stocks, config, sentiments, market_mood, moodLock, sentWriter,
          sentReaders, engine, bcast, facade, ticks, startBudget, tickBudget,
          writersFirst, moodAdvances, writtenAt, trace>>

\* the history variables
history == <<moodAdvances, writtenAt, trace>>

----------------------------------------------------------------------------
(* Bounds of the model *)

MaxTicks == 2

MaxStarts == 2

----------------------------------------------------------------------------
(* Fixed-point arithmetic standing for f64 *)

Scale == 10000000

Tenth == Scale \div 10

Abs(x) == IF x < 0 THEN -x ELSE x

\* a / b rounded to the nearest integer, halves away from zero (b > 0)
RoundDiv(a, b) ==
    IF a >= 0 THEN (2 * a + b) \div (2 * b)
    ELSE -((2 * (-a) + b) \div (2 * b))

\* a * num / den, rounded; a is split so that no product leaves 32 bits
MulRat(a, num, den) ==
    LET s == IF a < 0 THEN -1 ELSE 1
        m == Abs(a)
        q == m \div den
        r == m % den
    IN  s * (q * num + RoundDiv(r * num, den))

\* f64::clamp
clamp(x, lo, hi) == IF x < lo THEN lo ELSE IF x > hi THEN hi ELSE x

RECURSIVE ISqrtBetween(_, _, _)
ISqrtBetween(x, lo, hi) ==
    IF lo >= hi THEN lo
    ELSE LET mid == (lo + hi + 1) \div 2
         IN  IF mid * mid <= x THEN ISqrtBetween(x, mid, hi)
             ELSE ISqrtBetween(x, lo, mid - 1)

SqrtDen == 1000

\* dt.sqrt() for dt = ms / 1000 seconds, in units of 1 / SqrtDen
SqrtDt(ms) == ISqrtBetween(ms * 1000, 0, 2 * SqrtDen)

----------------------------------------------------------------------------
(* Inputs of SentimentService::new *)

Stock(id, port) == [id |-> id, sentiment_port |-> port]

\* tests::create_test_stocks
TestStocks == <<Stock(1, 18001), Stock(2, 18002)>>

UniqueStocks(s) ==
    \A i, j \in 1..Len(s) :
        i # j => s[i].id # s[j].id /\ s[i].sentiment_port # s[j].sentiment_port

\* an id no stock list holds (tests::test_service_creation asks for it)
UnknownId == 999

\* the ids the caller asks get_sentiment for: a registered one and UnknownId
QueryIds == {1, UnknownId}

\* impl Default for SentimentConfig
DefaultConfig ==
    [tick_interval |-> 100, mean |-> 0, speedNum |-> 1, speedDen |-> 2,
     volatility |-> 2 * Tenth]

\* the configuration main() builds
MainConfig ==
    [tick_interval |-> 100, mean |-> 0, speedNum |-> 1, speedDen |-> 20,
     volatility |-> 5 * Tenth]

ZeroVolatility == [DefaultConfig EXCEPT !.volatility = 0]

NegativeVolatility == [DefaultConfig EXCEPT !.volatility = -2 * Tenth]

OneStock == <<Stock(1, 18001)>>

\* two records with one id
SameId == <<Stock(1, 18001), Stock(1, 18002)>>

\* two records with one sentiment_port
SamePort == <<Stock(1, 18001), Stock(2, 18001)>>

\* the services the model constructs: SentimentService::new's arguments
Inputs ==
    { <<TestStocks, MainConfig>>,
      <<OneStock, DefaultConfig>>,
      <<(<<>>), DefaultConfig>>,
      <<SameId, MainConfig>>,
      <<SamePort, ZeroVolatility>>,
      <<OneStock, NegativeVolatility>> }

\* let offset = 0.5
offset == 5 * Tenth

\* standard normal draws, in tenths: the model's sample of N(0,1), four
\* standard deviations either way
ZDraws == {-40, 40}

\* rng.gen_range(-1.0..1.0), in tenths: the ends of the half-open range
UDraws == {-10, 9}

----------------------------------------------------------------------------
(* Threads *)

EngineIds == 1..MaxStarts

\* the broadcaster threads there is room for, and those a start() can spawn
BcastSlots == EngineIds \X UNION { 1..Len(in[1]) : in \in Inputs }

BcastIds == { b \in BcastSlots : b[2] <= Len(stocks) }

FacadeReader == <<0, 0>>

\* SentimentService::new
new(s, c) ==
    /\ stocks = s
    /\ config = c
    /\ sentiments = [id \in { s[i].id : i \in 1..Len(s) } |-> 0]
    /\ market_mood = 0

Threads0 ==
    /\ moodLock = 0
    /\ sentWriter = 0
    /\ sentReaders = {}
    /\ engine = [k \in EngineIds |-> [pc |-> "none", idx |-> 0]]
    /\ bcast = [b \in BcastSlots |-> [pc |-> "none", sentiment |-> 0]]
    /\ facade = [pc |-> "idle", idx |-> 0, arg |-> 0, ret |-> 0, starts |-> 0]
    /\ ticks = 0

\* main() and the tests call start() once on a service
MainStarts == 1

\* nothing has been advanced or written when the threads start
History0 ==
    /\ moodAdvances = 0
    /\ writtenAt = [id \in DOMAIN sentiments |-> 0]

\* no datagram of a broadcaster yet
NoDatagram == [at |-> -1, n |-> 0, payload |-> 0, again |-> FALSE]

\* no trace is kept
Untraced ==
    [draws |-> FALSE, drawn |-> <<>>,
     datagrams |-> FALSE, last |-> [b \in BcastSlots |-> NoDatagram], seen |-> {}]

\* the trace of the datagrams is kept
TracedDatagrams == [Untraced EXCEPT !.datagrams = TRUE]

\* the trace of the draws is kept
TracedDraws == [Untraced EXCEPT !.draws = TRUE]

Init ==
    /\ \E in \in Inputs : new(in[1], in[2])
    /\ Threads0
    /\ startBudget = MainStarts
    /\ tickBudget = MaxTicks
    /\ writersFirst = FALSE
    /\ History0
    /\ trace = Untraced

----------------------------------------------------------------------------
(* The store *)

\* Get with the baseline shift as the default of a missing key
GetDefaultOffset(map, id) == IF id \in DOMAIN map THEN map[id] ELSE offset

\* map.get(&id).copied().unwrap_or(0.0)
Get(map, id) == IF id \in DOMAIN map THEN map[id] ELSE 0

\* CanRead with the writer ignored
CanReadAlways == TRUE

\* sentiments.read(): granted while no writer holds the lock and, under the
\* policy that prefers writers, while no writer waits for it
CanRead ==
    /\ sentWriter = 0
    /\ writersFirst => \A k \in EngineIds : engine[k].pc # "lock"

\* sentiments.write(): granted while nobody holds the lock
CanWrite == sentWriter = 0 /\ sentReaders = {}

\* format!("{:.6}", sentiment): the millionths the text denotes, the exact
\* value rounded half to even
Format(v) ==
    LET m == Abs(v)
        q == m \div 10
        r == m % 10
        up == r > 5 \/ (r = 5 /\ q % 2 = 1)
        n == IF up THEN q + 1 ELSE q
    IN  IF v < 0 THEN -n ELSE n

----------------------------------------------------------------------------
(* SentimentService::start *)

\* start(): the call, and start_sentiment_engine's thread::spawn
Start ==
    /\ facade.pc = "idle"
    /\ facade.starts < startBudget
    /\ LET k == facade.starts + 1
       IN  /\ engine' = [engine EXCEPT ![k] = [pc |-> "init", idx |-> 0]]
           /\ facade' = [facade EXCEPT !.pc = "spawning", !.idx = 1, !.starts = k]
    /\ UNCHANGED <<stocks, config, sentiments, market_mood, moodLock, sentWriter,
                   sentReaders, bcast, ticks, startBudget, tickBudget,
                   writersFirst, history>>

\* for stock in &self.stocks { self.start_udp_broadcaster(stock.clone()) }
StartBroadcaster ==
    /\ facade.pc = "spawning"
    /\ facade.idx <= Len(stocks)
    /\ bcast' = [bcast EXCEPT ![<<facade.starts, facade.idx>>] =
                                  [pc |-> "bind", sentiment |-> 0]]
    /\ facade' = [facade EXCEPT !.idx = @ + 1]
    /\ UNCHANGED <<stocks, config, sentiments, market_mood, moodLock, sentWriter,
                   sentReaders, engine, ticks, startBudget, tickBudget,
                   writersFirst, history>>

\* StartReturn joining the engine thread first
StartReturnJoins ==
    /\ facade.pc = "spawning"
    /\ facade.idx > Len(stocks)
    /\ engine[facade.starts].pc = "panicked"
    /\ facade' = [facade EXCEPT !.pc = "idle", !.idx = 0]
    /\ UNCHANGED <<stocks, config, sentiments, market_mood, moodLock, sentWriter,
                   sentReaders, engine, bcast, ticks, startBudget, tickBudget,
                   writersFirst, history>>

\* start() returns
StartReturn ==
    /\ facade.pc = "spawning"
    /\ facade.idx > Len(stocks)
    /\ facade' = [facade EXCEPT !.pc = "idle", !.idx = 0]
    /\ UNCHANGED <<stocks, config, sentiments, market_mood, moodLock, sentWriter,
                   sentReaders, engine, bcast, ticks, startBudget, tickBudget,
                   writersFirst, history>>

----------------------------------------------------------------------------
(* SentimentService::get_sentiment *)

\* self.sentiments.read()
GetAcquire(id) ==
    /\ facade.pc = "idle"
    /\ CanRead
    /\ sentReaders' = sentReaders \cup {FacadeReader}
    /\ facade' = [facade EXCEPT !.pc = "reading", !.arg = id]
    /\ UNCHANGED <<stocks, config, sentiments, market_mood, moodLock, sentWriter,
                   engine, bcast, ticks, startBudget, tickBudget,
                   writersFirst, history>>

\* GetReturn through the entry of the key: a missing id is inserted as 0.0
GetReturnInserts ==
    /\ facade.pc = "reading"
    /\ sentReaders' = sentReaders \ {FacadeReader}
    /\ sentiments' = [id \in DOMAIN sentiments \cup {facade.arg} |->
                        Get(sentiments, id)]
    /\ facade' = [facade EXCEPT !.pc = "returned",
                                !.ret = Get(sentiments, facade.arg)]
    /\ UNCHANGED <<stocks, config, market_mood, moodLock, sentWriter,
                   engine, bcast, ticks, startBudget, tickBudget,
                   writersFirst, history>>

\* .map(|map| map.get(&stock_id).copied().unwrap_or(0.0)), the guard dropped
GetReturn ==
    /\ facade.pc = "reading"
    /\ sentReaders' = sentReaders \ {FacadeReader}
    /\ facade' = [facade EXCEPT !.pc = "returned",
                                !.ret = Get(sentiments, facade.arg)]
    /\ UNCHANGED <<stocks, config, sentiments, market_mood, moodLock, sentWriter,
                   engine, bcast, ticks, startBudget, tickBudget,
                   writersFirst, history>>

\* the caller is done with the value get_sentiment returned
GetDone ==
    /\ facade.pc = "returned"
    /\ facade' = [facade EXCEPT !.pc = "idle", !.arg = 0, !.ret = 0]
    /\ UNCHANGED <<stocks, config, sentiments, market_mood, moodLock, sentWriter,
                   sentReaders, engine, bcast, ticks, startBudget, tickBudget,
                   writersFirst, history>>

get_sentiment == (\E id \in QueryIds : GetAcquire(id)) \/ GetReturn \/ GetDone

----------------------------------------------------------------------------
(* SentimentService::start_sentiment_engine: the spawned thread *)

\* Normal::new(0.0, config.volatility) is Ok for a finite standard deviation
\* that is not negative, in every version of rand_distr
NormalNewOk(sd) == sd >= 0

\* a negative standard deviation is refused (BadVariance) by rand_distr before
\* 0.4 and taken from 0.4 on: the thread may pass the unwrap or panic on it
NormalNewMayFail(sd) == sd < 0

\* let normal_dist = Normal::new(0.0, config.volatility).unwrap()
EngineInit(k) ==
    /\ engine[k].pc = "init"
    /\ \/ /\ NormalNewOk(config.volatility) \/ NormalNewMayFail(config.volatility)
          /\ engine' = [engine EXCEPT ![k].pc = "sleep"]
       \/ /\ NormalNewMayFail(config.volatility)
          /\ engine' = [engine EXCEPT ![k].pc = "panicked"]
    /\ UNCHANGED <<stocks, config, sentiments, market_mood, moodLock, sentWriter,
                   sentReaders, bcast, facade, ticks, startBudget, tickBudget,
                   writersFirst, history>>

\* config.reversion_speed * (config.mean - *mood) * dt
reversion(mood) ==
    MulRat(MulRat(config.mean - mood, config.speedNum, config.speedDen),
           config.tick_interval, 1000)

\* normal_dist.sample(&mut rng) * dt.sqrt(), the standard normal draw z in tenths
noise(z) ==
    MulRat(MulRat(config.volatility, z, 10), SqrtDt(config.tick_interval), SqrtDen)

\* stock_noise with the factor 0.1 left out
stock_noiseWide(u) == MulRat(config.volatility, u, 10)

\* config.volatility * 0.1 * rng.gen_range(-1.0..1.0), the draw u in tenths
stock_noise(u) == MulRat(MulRat(config.volatility, 1, 10), u, 10)

\* *mood += reversion + noise
Advance(mood, z) == mood + (reversion(mood) + noise(z))

\* the trace with one more draw of the engine's rng
Drawn(x) == IF trace.draws THEN [trace EXCEPT !.drawn = Append(@, x)] ELSE trace

\* EngineAdvance with the time that really passed in place of dt: the
\* reversion is taken once more when the thread woke up late
EngineAdvanceElapsed(k) ==
    /\ engine[k].pc = "sleep"
    /\ ticks < tickBudget
    /\ moodLock = 0
    /\ moodLock' = k
    /\ \E z \in ZDraws, late \in {0, 1} :
         /\ market_mood' = Advance(market_mood, z) + late * reversion(market_mood)
         /\ trace' = Drawn(z)
    /\ moodAdvances' = moodAdvances + 1
    /\ engine' = [engine EXCEPT ![k].pc = "clamp"]
    /\ UNCHANGED <<stocks, config, sentiments, sentWriter, sentReaders, bcast,
                   facade, ticks, startBudget, tickBudget,
                   writersFirst, writtenAt>>

\* thread::sleep; market_mood.write().unwrap(); *mood += reversion + noise
EngineAdvance(k) ==
    /\ engine[k].pc = "sleep"
    /\ ticks < tickBudget
    /\ moodLock = 0
    /\ moodLock' = k
    /\ \E z \in ZDraws :
         /\ market_mood' = Advance(market_mood, z)
         /\ trace' = Drawn(z)
    /\ moodAdvances' = moodAdvances + 1
    /\ engine' = [engine EXCEPT ![k].pc = "clamp"]
    /\ UNCHANGED <<stocks, config, sentiments, sentWriter, sentReaders, bcast,
                   facade, ticks, startBudget, tickBudget,
                   writersFirst, writtenAt>>

\* ClampMood with the clamp left out
ClampMoodNone(mood) == mood

\* mood.clamp(-1.0, 1.0)
ClampMood(mood) == clamp(mood, -Scale, Scale)

\* *mood = mood.clamp(-1.0, 1.0)
EngineClamp(k) ==
    /\ engine[k].pc = "clamp"
    /\ market_mood' = ClampMood(market_mood)
    /\ engine' = [engine EXCEPT ![k].pc = "lock"]
    /\ UNCHANGED <<stocks, config, sentiments, moodLock, sentWriter, sentReaders,
                   bcast, facade, ticks, startBudget, tickBudget,
                   writersFirst, history>>

\* EngineLock with the loop over the stocks beginning at the second stock
EngineLockSkipFirst(k) ==
    /\ engine[k].pc = "lock"
    /\ CanWrite
    /\ sentWriter' = k
    /\ engine' = [engine EXCEPT ![k].pc = "write", ![k].idx = 2]
    /\ UNCHANGED <<stocks, config, sentiments, market_mood, moodLock, sentReaders,
                   bcast, facade, ticks, startBudget, tickBudget,
                   writersFirst, history>>

\* EngineLock going on to the writes without write access to the store
EngineLockUnguarded(k) ==
    /\ engine[k].pc = "lock"
    /\ engine' = [engine EXCEPT ![k].pc = "write", ![k].idx = 1]
    /\ UNCHANGED <<stocks, config, sentiments, market_mood, moodLock, sentWriter,
                   sentReaders, bcast, facade, ticks, startBudget, tickBudget,
                   writersFirst, history>>

\* if let Ok(mut sentiment_map) = sentiments.write()
EngineLock(k) ==
    /\ engine[k].pc = "lock"
    /\ CanWrite
    /\ sentWriter' = k
    /\ engine' = [engine EXCEPT ![k].pc = "write", ![k].idx = 1]
    /\ UNCHANGED <<stocks, config, sentiments, market_mood, moodLock, sentReaders,
                   bcast, facade, ticks, startBudget, tickBudget,
                   writersFirst, history>>

\* Sentiment with the clamp left out
SentimentNoClamp(mood, u) == mood + stock_noise(u) + offset

\* (*mood + stock_noise + offset).clamp(-1.0, 1.0)
Sentiment(mood, u) == clamp(mood + stock_noise(u) + offset, -Scale, Scale)

\* if let Some(current_sentiment) = sentiment_map.get_mut(&stock.id) { ... }
SetSentiment(map, id, v) ==
    IF id \in DOMAIN map THEN [map EXCEPT ![id] = v] ELSE map

\* EngineWrite with sentiment_map.insert(stock.sentiment_port, ..) for get_mut
EngineWriteInsertByPort(k) ==
    /\ engine[k].pc = "write"
    /\ engine[k].idx <= Len(stocks)
    /\ \E u \in UDraws :
         LET key == stocks[engine[k].idx].sentiment_port
         IN  /\ sentiments' = [id \in DOMAIN sentiments \cup {key} |->
                                 IF id = key THEN Sentiment(market_mood, u)
                                 ELSE sentiments[id]]
             /\ trace' = Drawn(u)
    /\ engine' = [engine EXCEPT ![k].idx = @ + 1]
    /\ UNCHANGED <<stocks, config, market_mood, moodLock, sentWriter, sentReaders,
                   bcast, facade, ticks, startBudget, tickBudget, writersFirst,
                   moodAdvances,
                   writtenAt>>

\* one iteration of for stock in &stocks
EngineWrite(k) ==
    /\ engine[k].pc = "write"
    /\ engine[k].idx <= Len(stocks)
    /\ \E u \in UDraws :
         /\ sentiments' = SetSentiment(sentiments, stocks[engine[k].idx].id,
                                       Sentiment(market_mood, u))
         /\ trace' = Drawn(u)
    /\ writtenAt' = SetSentiment(writtenAt, stocks[engine[k].idx].id, moodAdvances)
    /\ engine' = [engine EXCEPT ![k].idx = @ + 1]
    /\ UNCHANGED <<stocks, config, market_mood, moodLock, sentWriter, sentReaders,
                   bcast, facade, ticks, startBudget, tickBudget,
                   writersFirst, moodAdvances>>

\* the trace at the end of a tick: "repeat" is seen when a broadcaster has
\* sent two datagrams since the tick before completed
Completed ==
    IF trace.datagrams /\ ticks >= 1
          /\ \E b \in BcastSlots : trace.last[b].at = ticks /\ trace.last[b].n >= 2
    THEN [trace EXCEPT !.seen = @ \cup {"repeat"}]
    ELSE trace

\* EngineRelease with the store's guard leaked: write access is never given up
EngineReleaseLeaksGuard(k) ==
    /\ engine[k].pc = "write"
    /\ engine[k].idx > Len(stocks)
    /\ moodLock' = 0
    /\ ticks' = ticks + 1
    /\ engine' = [engine EXCEPT ![k].pc = "sleep", ![k].idx = 0]
    /\ trace' = Completed
    /\ UNCHANGED <<stocks, config, sentiments, market_mood, sentWriter, sentReaders,
                   bcast, facade, startBudget, tickBudget, writersFirst, moodAdvances,
                   writtenAt>>

\* the end of the loop body: sentiment_map and mood are dropped
EngineRelease(k) ==
    /\ engine[k].pc = "write"
    /\ engine[k].idx > Len(stocks)
    /\ sentWriter' = 0
    /\ moodLock' = 0
    /\ ticks' = ticks + 1
    /\ engine' = [engine EXCEPT ![k].pc = "sleep", ![k].idx = 0]
    /\ trace' = Completed
    /\ UNCHANGED <<stocks, config, sentiments, market_mood, sentReaders, bcast,
                   facade, startBudget, tickBudget, writersFirst, moodAdvances,
                   writtenAt>>

start_sentiment_engine(k) ==
    \/ EngineInit(k)
    \/ EngineAdvance(k)
    \/ EngineClamp(k)
    \/ EngineLock(k)
    \/ EngineWrite(k)
    \/ EngineRelease(k)

----------------------------------------------------------------------------
(* SentimentService::start_udp_broadcaster: the spawned thread *)

\* UdpSocket::bind("0.0.0.0:0") is Ok and set_multicast_ttl_v4(1) is Ok
BcastBind(b) ==
    /\ bcast[b].pc = "bind"
    /\ bcast' = [bcast EXCEPT ![b].pc = "loop"]
    /\ UNCHANGED <<stocks, config, sentiments, market_mood, moodLock, sentWriter,
                   sentReaders, engine, facade, ticks, startBudget, tickBudget,
                   writersFirst, history>>

\* BcastBindFail taking the other threads down with it
BcastBindFailAborts(b) ==
    /\ bcast[b].pc = "bind"
    /\ bcast' = [c \in BcastSlots |->
                  IF bcast[c].pc = "none" THEN bcast[c]
                  ELSE [pc |-> "returned", sentiment |-> 0]]
    /\ engine' = [k \in EngineIds |->
                   IF engine[k].pc = "none" THEN engine[k]
                   ELSE [pc |-> "panicked", idx |-> 0]]
    /\ UNCHANGED <<stocks, config, sentiments, market_mood, moodLock, sentWriter,
                   sentReaders, facade, ticks, startBudget, tickBudget,
                   writersFirst, history>>

\* Err(e) => { eprintln!(...); return; }
BcastBindFail(b) ==
    /\ bcast[b].pc = "bind"
    /\ bcast' = [bcast EXCEPT ![b].pc = "returned"]
    /\ UNCHANGED <<stocks, config, sentiments, market_mood, moodLock, sentWriter,
                   sentReaders, engine, facade, ticks, startBudget, tickBudget,
                   writersFirst, history>>

\* socket.set_multicast_ttl_v4(1).expect("set_multicast_ttl_v4 failed") panics
BcastTtlFail(b) ==
    /\ bcast[b].pc = "bind"
    /\ bcast' = [bcast EXCEPT ![b].pc = "panicked"]
    /\ UNCHANGED <<stocks, config, sentiments, market_mood, moodLock, sentWriter,
                   sentReaders, engine, facade, ticks, startBudget, tickBudget,
                   writersFirst, history>>

\* BcastAcquire waiting for a tick to complete after the last datagram
BcastAcquireAfterTick(b) ==
    /\ bcast[b].pc = "loop"
    /\ CanRead
    /\ trace.last[b].at < ticks
    /\ sentReaders' = sentReaders \cup {b}
    /\ bcast' = [bcast EXCEPT ![b].pc = "reading"]
    /\ UNCHANGED <<stocks, config, sentiments, market_mood, moodLock, sentWriter,
                   engine, facade, ticks, startBudget, tickBudget,
                   writersFirst, history>>

\* sentiments.read()
BcastAcquire(b) ==
    /\ bcast[b].pc = "loop"
    /\ CanRead
    /\ sentReaders' = sentReaders \cup {b}
    /\ bcast' = [bcast EXCEPT ![b].pc = "reading"]
    /\ UNCHANGED <<stocks, config, sentiments, market_mood, moodLock, sentWriter,
                   engine, facade, ticks, startBudget, tickBudget,
                   writersFirst, history>>

\* BcastRead with the baseline shift added by the reader
BcastReadShifted(b) ==
    /\ bcast[b].pc = "reading"
    /\ bcast' = [bcast EXCEPT ![b].pc = "send",
                              ![b].sentiment = Get(sentiments, stocks[b[2]].id) + offset]
    /\ sentReaders' = sentReaders \ {b}
    /\ UNCHANGED <<stocks, config, sentiments, market_mood, moodLock, sentWriter,
                   engine, facade, ticks, startBudget, tickBudget,
                   writersFirst, history>>

\* .map(|map| map.get(&stock.id).copied().unwrap_or(0.0)), the guard dropped
BcastRead(b) ==
    /\ bcast[b].pc = "reading"
    /\ bcast' = [bcast EXCEPT ![b].pc = "send",
                              ![b].sentiment = Get(sentiments, stocks[b[2]].id)]
    /\ sentReaders' = sentReaders \ {b}
    /\ UNCHANGED <<stocks, config, sentiments, market_mood, moodLock, sentWriter,
                   engine, facade, ticks, startBudget, tickBudget,
                   writersFirst, history>>

\* the datagram of one send_to: format!("{:.6}", sentiment) to addr
Datagram(b) ==
    [port |-> stocks[b[2]].sentiment_port, payload |-> Format(bcast[b].sentiment)]

\* the trace with Datagram(b) as b's last datagram: how many ticks had
\* completed when it was sent, how many datagrams b has sent since that tick
\* completed, and whether it repeats the datagram before it; "skip" is seen
\* when two ticks or more have completed since b's datagram before it
Sent(b) ==
    LET l == trace.last[b]
        p == Datagram(b).payload
    IN  IF trace.datagrams
        THEN [trace EXCEPT
                !.last[b] = [at |-> ticks,
                             n |-> IF l.at = ticks THEN (IF l.n >= 2 THEN 2 ELSE l.n + 1)
                                   ELSE 1,
                             payload |-> p,
                             again |-> l.at >= 0 /\ l.payload = p],
                !.seen = IF l.at >= 0 /\ ticks - l.at >= 2 THEN @ \cup {"skip"} ELSE @]
        ELSE trace

\* BcastSend with change detection: a value equal to the last one sent is
\* not sent again
BcastSendIfChanged(b) ==
    /\ bcast[b].pc = "send"
    /\ trace.last[b].at >= 0 => Datagram(b).payload # trace.last[b].payload
    /\ bcast' = [bcast EXCEPT ![b].pc = "sent"]
    /\ trace' = Sent(b)
    /\ UNCHANGED <<stocks, config, sentiments, market_mood, moodLock, sentWriter,
                   sentReaders, engine, facade, ticks, startBudget, tickBudget,
                   writersFirst, moodAdvances, writtenAt>>

\* socket.send_to(message.as_bytes(), &addr) is Ok: Datagram(b) is on the network
BcastSend(b) ==
    /\ bcast[b].pc = "send"
    /\ bcast' = [bcast EXCEPT ![b].pc = "sent"]
    /\ trace' = Sent(b)
    /\ UNCHANGED <<stocks, config, sentiments, market_mood, moodLock, sentWriter,
                   sentReaders, engine, facade, ticks, startBudget, tickBudget,
                   writersFirst, moodAdvances, writtenAt>>

\* BcastSendFail leaving the loop on the error
BcastSendFailReturns(b) ==
    /\ bcast[b].pc = "send"
    /\ bcast' = [bcast EXCEPT ![b].pc = "returned"]
    /\ UNCHANGED <<stocks, config, sentiments, market_mood, moodLock, sentWriter,
                   sentReaders, engine, facade, ticks, startBudget, tickBudget,
                   writersFirst, history>>

\* send_to is Err: eprintln!; message and sentiment are not used again
BcastSendFail(b) ==
    /\ bcast[b].pc = "send"
    /\ bcast' = [bcast EXCEPT ![b] = [pc |-> "failed", sentiment |-> 0]]
    /\ UNCHANGED <<stocks, config, sentiments, market_mood, moodLock, sentWriter,
                   sentReaders, engine, facade, ticks, startBudget, tickBudget,
                   writersFirst, history>>

\* thread::sleep(Duration::from_millis(5)), and the next iteration begins
BcastSleep(b) ==
    /\ bcast[b].pc \in {"sent", "failed"}
    /\ bcast' = [bcast EXCEPT ![b] = [pc |-> "loop", sentiment |-> 0]]
    /\ UNCHANGED <<stocks, config, sentiments, market_mood, moodLock, sentWriter,
                   sentReaders, engine, facade, ticks, startBudget, tickBudget,
                   writersFirst, history>>

start_udp_broadcaster(b) ==
    \/ BcastBind(b)
    \/ BcastBindFail(b)
    \/ BcastTtlFail(b)
    \/ BcastAcquire(b)
    \/ BcastRead(b)
    \/ BcastSend(b)
    \/ BcastSendFail(b)
    \/ BcastSleep(b)

----------------------------------------------------------------------------

start == Start \/ StartBroadcaster \/ StartReturn

Next ==
    \/ start
    \/ get_sentiment
    \/ \E k \in EngineIds : start_sentiment_engine(k)
    \/ \E b \in BcastSlots : start_udp_broadcaster(b)

Spec == Init /\ [][Next]_vars

\* main(): the service is built, start() is called once and the main thread
\* sleeps: get_sentiment is never called.  The trace of the datagrams is kept
\* and one more iteration of the engine loop is followed.
MainInputs == { <<OneStock, MainConfig>> }

InitMain ==
    /\ \E in \in MainInputs : new(in[1], in[2])
    /\ Threads0
    /\ startBudget = MainStarts
    /\ tickBudget = MaxTicks + 1
    /\ writersFirst = FALSE
    /\ History0
    /\ trace = TracedDatagrams

NextMain ==
    \/ start
    \/ \E k \in EngineIds : start_sentiment_engine(k)
    \/ \E b \in BcastSlots : start_udp_broadcaster(b)

SpecMain == InitMain /\ [][NextMain]_vars

\* main() again, with the trace of the engine's draws kept
ReplayInputs == { <<OneStock, MainConfig>>, <<TestStocks, DefaultConfig>> }

InitReplay ==
    /\ \E in \in ReplayInputs : new(in[1], in[2])
    /\ Threads0
    /\ startBudget = MainStarts
    /\ tickBudget = MaxTicks
    /\ writersFirst = FALSE
    /\ History0
    /\ trace = TracedDraws

SpecReplay == InitReplay /\ [][NextMain]_vars

\* a started service under fair scheduling, with either policy of the RwLock:
\* a thread start() has spawned that is again and again able to take a step
\* takes one, and a get_sentiment call that has acquired the lock returns
FairInputs == { <<OneStock, MainConfig>> }

\* the threads one start() spawns over FairInputs
FairEngines == 1..MainStarts

FairBcasts ==
    { b \in BcastSlots :
        b[1] \in FairEngines /\ \E in \in FairInputs : b[2] <= Len(in[1]) }

InitFair ==
    /\ \E in \in FairInputs : new(in[1], in[2])
    /\ Threads0
    /\ startBudget = MainStarts
    /\ tickBudget = MaxTicks
    /\ writersFirst \in BOOLEAN
    /\ History0
    /\ trace = Untraced

Fairness ==
    /\ \A k \in FairEngines : SF_vars(start_sentiment_engine(k))
    /\ \A b \in FairBcasts : SF_vars(start_udp_broadcaster(b))
    /\ WF_vars(GetReturn)

SpecFair == InitFair /\ [][Next]_vars /\ Fairness

\* a caller that calls start() more than once on one service
RestartInputs == { <<OneStock, MainConfig>> }

InitRestart ==
    /\ \E in \in RestartInputs : new(in[1], in[2])
    /\ Threads0
    /\ startBudget = MaxStarts
    /\ tickBudget = MaxTicks
    /\ writersFirst = FALSE
    /\ History0
    /\ trace = Untraced

SpecRestart == InitRestart /\ [][Next]_vars

----------------------------------------------------------------------------
(* Properties *)

\* a value of [-1, 1]
InRange(v) == -Scale <= v /\ v <= Scale

\* a datagram's text denotes a number of [-1, 1]
PayloadInRange(p) == -(Scale \div 10) <= p /\ p <= Scale \div 10

\* the ids of the Registry
RegistryIds == { stocks[i].id : i \in 1..Len(stocks) }

\* C1: every sentiment value an observer obtains, the value get_sentiment
\* returned or the number a sent datagram carries, lies in [-1, 1]
C1_ObservedSentimentInRange ==
    /\ facade.pc = "returned" => InRange(facade.ret)
    /\ \A b \in BcastIds :
         bcast[b].pc = "sent" => PayloadInRange(Datagram(b).payload)

\* C1 witness: a datagram carrying 1.000000, the clamp's upper end, is on the
\* network while get_sentiment has returned a value an engine tick wrote
C1_Witness ==
    /\ ticks >= 1
    /\ facade.pc = "returned" /\ facade.ret # 0
    /\ \E b \in BcastIds :
         bcast[b].pc = "sent" /\ Datagram(b).payload = Scale \div 10

\* C2: the Market Mood is 0.0 until the engine first updates it, and lies in
\* [-1, 1] whenever its lock is free and whenever the engine goes on to use it
C2_MoodInRange ==
    /\ (ticks = 0 /\ moodLock = 0) => market_mood = 0
    /\ moodLock = 0 => InRange(market_mood)
    /\ \A k \in EngineIds :
         engine[k].pc \in {"lock", "write"} => InRange(market_mood)

\* C2 witness: a second update has been clamped to 1.0 and is in use
C2_Witness ==
    /\ ticks >= 1
    /\ market_mood = Scale
    /\ \E k \in EngineIds : engine[k].pc = "write"

\* C3: get_sentiment of an id that is not in the Registry returns 0.0
C3_UnknownIdReturnsZero ==
    (facade.pc = "returned" /\ facade.arg \notin RegistryIds) => facade.ret = 0

\* C3 witness: get_sentiment(999) has returned while the store holds a value
\* the engine wrote and the engine is waiting to write again
C3_Witness ==
    /\ facade.pc = "returned" /\ facade.arg = UnknownId
    /\ \E id \in DOMAIN sentiments : sentiments[id] # 0
    /\ \E k \in EngineIds : engine[k].pc = "lock"

\* C4: the key set of the store is the set of ids given at construction
C4_StoreKeysAreRegistry == DOMAIN sentiments = RegistryIds

\* C4 witness: the engine has completed a tick over two instruments
C4_Witness ==
    /\ ticks >= 1
    /\ Cardinality(DOMAIN sentiments) = 2
    /\ \A id \in DOMAIN sentiments : sentiments[id] # 0

BcastLoopPcs == {"loop", "reading", "send", "sent", "failed"}

EngineLoopPcs == {"sleep", "clamp", "lock", "write"}

\* a thread that is in its loop
EngineRunning(k) == engine[k].pc \in EngineLoopPcs

BcastRunning(b) == bcast[b].pc \in BcastLoopPcs

NothingRuns ==
    /\ \A k \in EngineIds : ~EngineRunning(k)
    /\ \A b \in BcastSlots : ~BcastRunning(b)

\* C5 as claimed: a service whose volatility is not strictly positive never
\* has a running engine or a running broadcaster
C5_InvalidVolatilityNeverRuns == config.volatility <= 0 => NothingRuns

\* C6 as claimed: a service built from a sequence repeating an id or a
\* sentiment_port never has a running engine or a running broadcaster
C6_DuplicatesNeverRun == ~UniqueStocks(stocks) => NothingRuns

\* the other threads and the shared state are as they were
OnlyChanges(b) ==
    /\ \A c \in BcastSlots \ {b} : bcast'[c] = bcast[c]
    /\ UNCHANGED <<engine, facade, sentiments, market_mood, moodLock, sentWriter,
                   sentReaders>>

\* C7: while a reader holds read access to the store no engine holds write
\* access or is inside its writes, and the store does not change
C7_ReadersExcludeWriter ==
    /\ [](sentReaders # {} =>
            sentWriter = 0 /\ \A k \in EngineIds : engine[k].pc # "write")
    /\ [](sentWriter # 0 => sentReaders = {})
    /\ [][sentReaders # {} => sentiments' = sentiments]_vars

\* C7 witness: both broadcasters and get_sentiment hold read access at once,
\* after a tick, while the engine waits to write
C7_Witness ==
    /\ ticks >= 1
    /\ Cardinality(sentReaders) = 3
    /\ \E k \in EngineIds : engine[k].pc = "lock"

\* C8: a broadcaster whose socket creation fails ends alone: the step changes
\* no other thread, not the store, the mood or a lock, and the ended
\* broadcaster holds no access to the store
C8_BindFailureIsIsolated ==
    /\ [][\A b \in BcastSlots :
            (bcast[b].pc = "bind" /\ bcast'[b].pc = "returned") => OnlyChanges(b)]_vars
    /\ [](\A b \in BcastSlots : bcast[b].pc = "returned" => b \notin sentReaders)

\* C8 witness: the first broadcaster ended on its socket, and after it the
\* engine completed a tick whose value the second broadcaster has sent
C8_Witness ==
    /\ Len(stocks) = 2 /\ ticks >= 1
    /\ bcast[<<1, 1>>].pc = "returned"
    /\ bcast[<<1, 2>>].pc = "sent" /\ bcast[<<1, 2>>].sentiment # 0
    /\ engine[1].pc = "write"

\* C9: a failed send changes nothing but the broadcaster's own position; the
\* broadcaster goes on to the top of its loop, reads the store and sends
\* again; no thread that is in its loop ever leaves it
C9_SendFailureIsNonFatal ==
    /\ [][\A b \in BcastSlots :
            (bcast[b].pc = "send" /\ bcast'[b].pc = "failed") => OnlyChanges(b)]_vars
    /\ [][\A b \in BcastSlots :
            /\ (bcast[b].pc = "failed" /\ bcast'[b] # bcast[b]) => bcast'[b].pc = "loop"
            /\ (bcast[b].pc = "loop" /\ bcast'[b] # bcast[b]) => bcast'[b].pc = "reading"
            /\ (bcast[b].pc = "reading" /\ bcast'[b] # bcast[b]) =>
                   /\ bcast'[b].pc = "send"
                   /\ bcast'[b].sentiment = Get(sentiments, stocks[b[2]].id)
            /\ bcast[b].pc \in BcastLoopPcs => bcast'[b].pc \in BcastLoopPcs]_vars
    /\ [][\A k \in EngineIds :
            engine[k].pc \in EngineLoopPcs => engine'[k].pc \in EngineLoopPcs]_vars
    /\ [](\A b \in BcastSlots : bcast[b].pc = "failed" => ENABLED BcastSleep(b))

\* C9 witness: one broadcaster's send has failed while the other has sent a
\* value of a completed tick and the engine is writing the next
C9_Witness ==
    /\ Len(stocks) = 2 /\ ticks >= 1
    /\ bcast[<<1, 1>>].pc = "failed"
    /\ bcast[<<1, 2>>].pc = "sent" /\ bcast[<<1, 2>>].sentiment # 0
    /\ engine[1].pc = "write"

\* the broadcasters start() has spawned so far
Spawned(b) ==
    /\ b \in BcastIds
    /\ \/ b[1] < facade.starts
       \/ b[1] = facade.starts /\ (facade.pc = "spawning" => b[2] < facade.idx)

\* C10: there is one engine thread per call of start() and, once the call has
\* returned, one broadcaster thread per stock of the Registry; a start() that
\* has begun can always take its next step, whatever the threads have done
C10_StartSpawnsAllAndReturns ==
    /\ Cardinality({ k \in EngineIds : engine[k].pc # "none" }) = facade.starts
    /\ \A b \in BcastSlots : bcast[b].pc # "none" <=> Spawned(b)
    /\ facade.pc = "spawning" => ENABLED start

\* C10 witness: start() has returned over two stocks and no thread it spawned
\* has taken a step
C10_Witness ==
    /\ facade.pc = "idle" /\ facade.starts = 1
    /\ Len(stocks) = 2
    /\ engine[1].pc = "init"
    /\ \A i \in 1..Len(stocks) : bcast[<<1, i>>].pc = "bind"

\* C11: until the first engine tick has completed every value that can be
\* read from the store is 0.0: the store holds 0.0 for every instrument
\* whenever its lock is not held for writing, get_sentiment returns 0.0 for
\* every id, and every datagram a broadcaster has sent or is about to send
\* carries 0.0
C11_ZeroUntilFirstTick ==
    ticks = 0 =>
      /\ sentWriter = 0 => \A id \in DOMAIN sentiments : sentiments[id] = 0
      /\ facade.pc = "returned" => facade.ret = 0
      /\ \A b \in BcastSlots :
           bcast[b].pc \in {"send", "sent"} =>
             bcast[b].sentiment = 0 /\ Datagram(b).payload = 0

\* C11 witness: the engine is inside its first tick and has written a value,
\* while get_sentiment of a registered id has returned and a broadcaster has
\* sent a datagram
C11_Witness ==
    /\ ticks = 0
    /\ \E k \in EngineIds : engine[k].pc = "write" /\ engine[k].idx > 1
    /\ \E id \in DOMAIN sentiments : sentiments[id] # 0
    /\ facade.pc = "returned" /\ facade.arg \in RegistryIds
    /\ \E b \in BcastIds : bcast[b].pc = "sent"

\* C12: an iteration of a broadcaster reads the store once, keeping the value
\* the store holds for its own stock's id at that moment, and then calls
\* send_to once: the datagram goes to its own stock's port and carries the
\* value read, formatted, whatever the store holds by then; after it the
\* broadcaster only sleeps and begins the next iteration.  A send is never
\* held back: the broadcaster can send whenever it has a value, also when the
\* value equals the one of its last datagram
C12_OneDatagramPerIteration ==
    /\ [][\A b \in BcastSlots :
            /\ (bcast[b].pc = "reading" /\ bcast'[b] # bcast[b]) =>
                   /\ bcast'[b].pc = "send"
                   /\ bcast'[b].sentiment = Get(sentiments, stocks[b[2]].id)
            /\ (bcast[b].pc = "send" /\ bcast'[b] # bcast[b]) =>
                   bcast'[b].pc \in {"sent", "failed"}
            /\ (bcast[b].pc = "send" /\ bcast'[b].pc = "sent") =>
                   /\ bcast'[b].sentiment = bcast[b].sentiment
                   /\ trace'.last[b].payload = Format(bcast[b].sentiment)
            /\ (bcast[b].pc = "sent" /\ bcast'[b] # bcast[b]) =>
                   bcast'[b].pc = "loop"]_vars
    /\ [](\A b \in BcastSlots :
            bcast[b].pc = "sent" =>
               Datagram(b) = [port |-> stocks[b[2]].sentiment_port,
                              payload |-> trace.last[b].payload])
    /\ [](\A b \in BcastSlots : bcast[b].pc = "send" => ENABLED BcastSend(b))

\* C12 witness: a broadcaster has sent the same non-zero value as in its
\* datagram before, and the store holds another value by now
C12_Witness ==
    \E b \in BcastIds :
      /\ bcast[b].pc = "sent"
      /\ trace.last[b].again /\ trace.last[b].payload # 0
      /\ sentiments[stocks[b[2]].id] # bcast[b].sentiment

\* which draw of the loop body the p-th draw is: 0 the normal draw of the
\* mood, i the uniform draw of the i-th stock
DrawOf(p) == (p - 1) % (Len(stocks) + 1)

\* the mood after the engine has consumed the draws d, in the order of the
\* loop body: one normal draw, then one uniform draw per stock
RECURSIVE ReplayMood(_)
ReplayMood(d) ==
    IF d = <<>> THEN 0
    ELSE IF DrawOf(Len(d)) = 0
         THEN ClampMood(Advance(ReplayMood(SubSeq(d, 1, Len(d) - 1)), d[Len(d)]))
         ELSE ReplayMood(SubSeq(d, 1, Len(d) - 1))

\* the stored sentiment of id after the draws d: the last write to id, made
\* from the mood of its tick and its own draw
ReplaySentiment(d, id) ==
    LET ps == { p \in 1..Len(d) : DrawOf(p) # 0 /\ stocks[DrawOf(p)].id = id }
    IN  IF ps = {} THEN 0
        ELSE LET p == CHOOSE q \in ps : \A o \in ps : o <= q
             IN  Sentiment(ReplayMood(SubSeq(d, 1, p - 1)), d[p])

InTick(k) == engine[k].pc \in {"clamp", "lock", "write"}

\* C14: an engine tick advances the mood once and then writes the sentiment
\* of every stock of the Registry: the mood has been advanced once per
\* completed tick and once for a tick under way, the stocks the loop has
\* passed carry the stamp of this tick, and when no tick is under way every
\* registered id was last written by the latest completed tick.  The mood
\* changes only in an engine's own advance and clamp steps, never while no
\* tick is under way
C14_OneAdvanceThenAllWritten ==
    /\ [](moodAdvances = ticks + Cardinality({ k \in EngineIds : InTick(k) }))
    /\ [](\A k \in EngineIds :
            engine[k].pc = "write" =>
               \A i \in 1..Len(stocks) :
                  i < engine[k].idx => writtenAt[stocks[i].id] = moodAdvances)
    /\ [](moodLock = 0 =>
            \A id \in RegistryIds : id \in DOMAIN writtenAt /\ writtenAt[id] = ticks)
    /\ [][market_mood' # market_mood =>
            /\ \E k \in EngineIds :
                 /\ engine[k].pc \in {"sleep", "clamp"}
                 /\ engine'[k].pc \in {"clamp", "lock"}
                 /\ moodLock' = k
            /\ bcast' = bcast /\ facade' = facade /\ sentiments' = sentiments]_vars
    /\ [][(moodLock = 0 /\ moodLock' = 0) => market_mood' = market_mood]_vars

\* C14 witness: two ticks have completed over two stocks, both written by the
\* second, while get_sentiment has returned a value
C14_Witness ==
    /\ ticks = 2 /\ moodLock = 0 /\ moodAdvances = 2
    /\ Cardinality(RegistryIds) = 2
    /\ \A id \in RegistryIds : writtenAt[id] = 2 /\ sentiments[id] # 0
    /\ facade.pc = "returned" /\ facade.ret # 0

\* the largest size of a stock's own noise: 0.1 * volatility
NoiseBound == MulRat(Abs(config.volatility), 1, 10)

\* C15: after a completed tick, while no tick is under way, the stored
\* sentiment of every registered id is clamp(m + n + offset, -1, 1) for the
\* mood m that tick left and some n with |n| <= 0.1 * volatility: as clamp is
\* monotone, the value lies between clamp(m - 0.1 * volatility + offset) and
\* clamp(m + 0.1 * volatility + offset)
C15_SentimentFromMood ==
    (ticks >= 1 /\ moodLock = 0) =>
       \A id \in RegistryIds :
          /\ clamp(market_mood - NoiseBound + offset, -Scale, Scale) <= sentiments[id]
          /\ sentiments[id] <= clamp(market_mood + NoiseBound + offset, -Scale, Scale)

\* C15 witness: after a tick two stocks hold different sentiments inside
\* (-1, 1), made from a mood that has moved
C15_Witness ==
    /\ ticks >= 1 /\ moodLock = 0 /\ market_mood # 0
    /\ \E i, j \in RegistryIds :
         /\ sentiments[i] # sentiments[j]
         /\ -Scale < sentiments[i] /\ sentiments[i] < Scale
         /\ -Scale < sentiments[j] /\ sentiments[j] < Scale

\* C16: a step of a broadcaster or of the caller of the facade leaves the
\* store, the mood and the write side of both locks as they were; the store
\* and the mood change only in a step of an engine that holds the lock of
\* what it changes; the mood's lock is only ever held by an engine inside its
\* tick, and what get_sentiment returns is read from the store alone
C16_EngineIsOnlyWriter ==
    /\ [][(bcast' # bcast \/ facade' # facade) =>
            UNCHANGED <<sentiments, market_mood, moodLock, sentWriter>>]_vars
    /\ [][sentiments' # sentiments =>
            \E k \in EngineIds : engine'[k] # engine[k] /\ sentWriter = k]_vars
    /\ [][market_mood' # market_mood =>
            \E k \in EngineIds : engine'[k] # engine[k] /\ moodLock' = k]_vars
    /\ [](moodLock # 0 => moodLock \in EngineIds /\ InTick(moodLock))
    /\ [][(facade.pc = "reading" /\ facade' # facade) =>
            facade'.pc = "returned" /\ facade'.ret = Get(sentiments, facade.arg)]_vars

\* C16 witness: get_sentiment has returned and a broadcaster has sent values
\* of a completed tick while the engine holds the mood's lock, the mood
\* advanced out of [-1, 1] and not yet clamped
C16_Witness ==
    /\ ticks >= 1
    /\ \E k \in EngineIds : engine[k].pc = "clamp" /\ moodLock = k
    /\ ~InRange(market_mood)
    /\ facade.pc = "returned" /\ facade.ret # 0
    /\ \E b \in BcastIds : bcast[b].pc = "sent" /\ bcast[b].sentiment # 0

\* C17: neither the engine nor a broadcaster waits for the other except for
\* the store's lock: a broadcaster in its loop can take its next step unless
\* it is about to read while the engine holds write access, and the engine in
\* its loop can take its next step unless it is about to write while a reader
\* holds read access (or the iterations followed are used up)
C17_NoOrderBetweenTasks ==
    /\ \A b \in BcastSlots :
         BcastRunning(b) =>
            \/ ENABLED start_udp_broadcaster(b)
            \/ bcast[b].pc = "loop" /\ sentWriter # 0
    /\ \A k \in EngineIds :
         EngineRunning(k) =>
            \/ ENABLED start_sentiment_engine(k)
            \/ engine[k].pc = "lock" /\ sentReaders # {}
            \/ engine[k].pc = "sleep" /\ (ticks >= tickBudget \/ moodLock # 0)

\* C17 witness: in one run a broadcaster has sent two datagrams between two
\* consecutive ticks, and later sent two consecutive datagrams with two ticks
\* completed between them
C17_Witness ==
    /\ trace.seen = {"repeat", "skip"}
    /\ ticks = tickBudget
    /\ \E b \in BcastIds : bcast[b].pc = "sent" /\ trace.last[b].at = ticks

\* no thread that is in its loop leaves it
StaysRunning ==
    /\ \A k \in EngineIds : EngineRunning(k) => EngineRunning(k)'
    /\ \A b \in BcastSlots : BcastRunning(b) => BcastRunning(b)'

\* C18 as claimed: under fair scheduling alone a running engine completes
\* every tick it is due (all the iterations followed), whatever the readers
\* do, a running broadcaster gets to call send_to again and again, and no
\* running thread ends
C18_TasksRunForever ==
    /\ \A k \in FairEngines : EngineRunning(k) ~> (ticks = tickBudget)
    /\ \A b \in FairBcasts : BcastRunning(b) ~> (bcast[b].pc \in {"sent", "failed"})
    /\ [][StaysRunning]_vars

\* C18 amended: the same, the engine's part for an RwLock that holds new
\* readers back while a writer waits
C18_TasksRunForeverWritersFirst ==
    /\ \A k \in FairEngines :
         (writersFirst /\ EngineRunning(k)) ~> (ticks = tickBudget)
    /\ \A b \in FairBcasts : BcastRunning(b) ~> (bcast[b].pc \in {"sent", "failed"})
    /\ [][StaysRunning]_vars

\* C18 witness: after a tick the engine waits for write access while
\* get_sentiment holds read access, and the broadcaster, about to read, is
\* held back behind the waiting engine
C18_Witness ==
    /\ writersFirst /\ ticks >= 1
    /\ \E k \in EngineIds : engine[k].pc = "lock"
    /\ sentReaders = {FacadeReader}
    /\ \E b \in BcastIds : bcast[b].pc = "loop"

\* C19: whenever the store can be read (no writer holds its lock, or a reader
\* holds read access), all stored ids were last written by the same tick, and
\* ids no tick has written hold 0.0: a reader never finds some stocks at tick
\* k and others at tick k - 1
C19_ReadersSeeOneTick ==
    (sentWriter = 0 \/ sentReaders # {}) =>
       /\ \A i, j \in DOMAIN writtenAt : writtenAt[i] = writtenAt[j]
       /\ \A i \in DOMAIN writtenAt : writtenAt[i] = 0 => sentiments[i] = 0

\* C19 witness: get_sentiment and a broadcaster hold read access over two
\* stocks both written by the first tick, with values that are not 0.0,
\* while the engine, its mood advanced for the second time, waits to write
C19_Witness ==
    /\ ticks = 1 /\ moodAdvances = 2
    /\ FacadeReader \in sentReaders /\ Cardinality(sentReaders) >= 2
    /\ Cardinality(DOMAIN writtenAt) = 2
    /\ \A i \in DOMAIN writtenAt : writtenAt[i] = 1 /\ sentiments[i] # 0
    /\ \E k \in EngineIds : engine[k].pc = "lock"

\* C20 as claimed: whatever the caller calls, start() more than once
\* included, at most one engine thread exists and at most one broadcaster
\* thread per stock
C20_AtMostOneEngine ==
    /\ Cardinality({ k \in EngineIds : engine[k].pc # "none" }) <= 1
    /\ \A i \in 1..Len(stocks) :
         Cardinality({ b \in BcastIds : b[2] = i /\ bcast[b].pc # "none" }) <= 1

====
